---- MODULE Spec2Model ----
(***************************************************************************)
(* Model of the structured-error value of go-util (config.ErrMessage) and  *)
(* of the values it wraps.  Go strings are sequences of tokens (each token *)
(* a piece of text); the formatting directive "%s" and the marker "%!" are *)
(* tokens of their own, so fmt.Sprintf is modelled by what it does to the  *)
(* directives of its format.  Errors live in a heap; a reference is an     *)
(* index into the heap and 0 is the nil error.  After the error value come *)
(* the middleware clients that produce and return errors: the Prometheus   *)
(* connection, the Kafka consumer group, the SQL parser result and the     *)
(* HTTP client, each with a specification of its own.                      *)
(***************************************************************************)
EXTENDS Integers, Sequences, FiniteSets, TLC

VARIABLES heap, captures, res, nspec, pc, arg, mine, tmp, acc,
          prom, cg, result, post

vars == <<heap, captures, res, nspec, pc, arg, mine, tmp, acc,
          prom, cg, result, post>>

\* ------------------------------------------------------------------ bounds
MaxObj == 3
MaxRaw == 7
NumCallers == 3
MaxChildren == 2
MaxCopies == 2
MaxSpecify == 2

\* ------------------------------------------------------ program constants
ZeroInt == 0
EmptyString == ""
defaultCallerSkip == 1

NilErr == 0

\* --------------------------------------------------------------- inputs
TemplateX == <<"x=", "%s">>
TemplateDAS == <<"failed to connect to ", "%s", ": ", "%s">>

Entries ==
    { [Header |-> "DAS", ErrCode |-> 1001, Raw |-> TemplateDAS],
      [Header |-> "X", ErrCode |-> 0, Raw |-> TemplateX],
      [Header |-> "", ErrCode |-> 1001, Raw |-> TemplateX],
      [Header |-> "", ErrCode |-> 0, Raw |-> TemplateX] }

Ins == { <<>>, <<"1">>, <<"db1", "timeout">> }

\* the verbs handed to Format, each with the '+' flag set or not
FormatCalls ==
    { <<"v", TRUE>>, <<"v", FALSE>>, <<"s", FALSE>>, <<"q", FALSE>>, <<"d", FALSE>> }

\* the renderings asked of a copy
CopyFormatCalls == { <<"v", TRUE>>, <<"v", FALSE>>, <<"s", FALSE>> }

\* ------------------------------------------------------------ heap cells
\* type ErrMessage struct { Header; ErrCode; Raw; Err; Stack }
ErrMessage(header, errCode, raw, err, stack) ==
    [kind |-> "node", Header |-> header, ErrCode |-> errCode, Raw |-> raw,
     Err |-> err, Stack |-> stack, hasStack |-> TRUE, Errors |-> <<>>]

\* an error of another package held in the Err field: its message, and the
\* stack it carries when it implements errors.StackTracer
Primitive(msg, hasStack, stack) ==
    [kind |-> "prim", Header |-> "", ErrCode |-> 0, Raw |-> msg,
     Err |-> NilErr, Stack |-> stack, hasStack |-> hasStack, Errors |-> <<>>]

\* *multierror.Error: the ordered children
Aggregate(children) ==
    [kind |-> "multi", Header |-> "", ErrCode |-> 0, Raw |-> <<>>,
     Err |-> NilErr, Stack |-> <<>>, hasStack |-> FALSE, Errors |-> children]

IsNode(h, e) == e # NilErr /\ h[e].kind = "node"
IsMulti(h, e) == e # NilErr /\ h[e].kind = "multi"
IsPrim(h, e) == e # NilErr /\ h[e].kind = "prim"

Refs(h) == 1..Len(h)
Nodes(h) == { e \in Refs(h) : h[e].kind = "node" }
Multis(h) == { e \in Refs(h) : h[e].kind = "multi" }

\* ------------------------------------------------------------- fmt, strconv
Digits == <<"0", "1", "2", "3", "4", "5", "6", "7", "8", "9">>

RECURSIVE Itoa(_)
\* the %d verb on an int
Itoa(n) ==
    IF n < 0 THEN <<"-">> \o Itoa(0 - n)
    ELSE IF n < 10 THEN <<Digits[n + 1]>>
    ELSE Itoa(n \div 10) \o <<Digits[(n % 10) + 1]>>

\* a Go string value as text: the empty string contributes nothing
Str(s) == IF s = EmptyString THEN <<>> ELSE <<s>>

RECURSIVE ExtraArgs(_)
ExtraArgs(ins) ==
    IF ins = <<>> THEN <<>>
    ELSE <<"string=", Head(ins)>>
         \o (IF Tail(ins) = <<>> THEN <<>> ELSE <<", ">>)
         \o ExtraArgs(Tail(ins))

RECURSIVE SprintfFrom(_, _, _)
\* fmt.Sprintf(format, ins...) from position i of format, ins the operands
\* not yet consumed.  "%s" consumes one operand; "%!" is the start of an
\* earlier error marker and is read again as a directive with the bad verb '!'.
SprintfFrom(format, i, ins) ==
    IF i > Len(format)
    THEN IF ins = <<>> THEN <<>> ELSE <<"%!", "(EXTRA ">> \o ExtraArgs(ins) \o <<")">>
    ELSE IF format[i] = "%s"
    THEN IF ins = <<>>
         THEN <<"%!", "s(MISSING)">> \o SprintfFrom(format, i + 1, ins)
         ELSE <<Head(ins)>> \o SprintfFrom(format, i + 1, Tail(ins))
    ELSE IF format[i] = "%!"
    THEN IF ins = <<>>
         THEN <<"%!", "!(MISSING)">> \o SprintfFrom(format, i + 1, ins)
         ELSE <<"%!", "!(string=", Head(ins), ")">>
              \o SprintfFrom(format, i + 1, Tail(ins))
    ELSE <<format[i]>> \o SprintfFrom(format, i + 1, ins)

Sprintf(format, ins) == SprintfFrom(format, 1, ins)

RECURSIVE Quote(_)
\* the body of a %q rendering: a newline is written as its escape
Quote(s) ==
    IF s = <<>> THEN <<>>
    ELSE <<(IF Head(s) = "\n" THEN "\\n" ELSE Head(s))>> \o Quote(Tail(s))

\* ------------------------------------------------------------------ stacks
\* the call stack at the c-th capture of the run, innermost frame first: frame
\* 0 is NewErrMessage itself, then its call site and that site's caller
CallStack(c) == <<0, 2 * c, 2 * c + 1>>

\* errors.NewStack(skip).StackTrace() at the c-th capture: the call stack
\* without its skip innermost frames
NewStack(c, skip) == SubSeq(CallStack(c), skip + 1, Len(CallStack(c)))

RECURSIVE StackFormat(_)
\* errors.StackTrace.Format with %+v: each frame on lines of its own
StackFormat(st) ==
    IF st = <<>> THEN <<>>
    ELSE (<<"\n", "fn">> \o Itoa(Head(st)) \o <<"\n\t", "file">>)
         \o StackFormat(Tail(st))

Panic == [ok |-> FALSE, st |-> <<>>]
Stack(st) == [ok |-> TRUE, st |-> st]

RECURSIVE HasStack(_, _)
RECURSIVE GetStackTrace(_, _)
RECURSIVE StackTrace(_, _)

\* the aggregate queried as one stack-bearing error: its first child's stack
MultiHasStack(h, m) ==
    Len(h[m].Errors) > ZeroInt /\ HasStack(h, h[m].Errors[1])

MultiStackTrace(h, m) == GetStackTrace(h, h[m].Errors[1])

\* errors.HasStack(err): err gives a StackTracer
HasStack(h, err) ==
    CASE err = NilErr -> FALSE
      [] IsPrim(h, err) -> h[err].hasStack
      [] IsNode(h, err) -> TRUE
      [] IsMulti(h, err) -> MultiHasStack(h, err)

\* errors.GetStackTracer(err).StackTrace(): a method call on the tracer found,
\* which is the nil interface when err gives none
GetStackTrace(h, err) ==
    CASE ~HasStack(h, err) -> Panic
      [] IsPrim(h, err) -> Stack(h[err].Stack)
      [] IsNode(h, err) -> StackTrace(h, err)
      [] IsMulti(h, err) -> MultiStackTrace(h, err)

\* merr.Len(), merr.WrappedErrors()
MultiLen(h, m) == Len(h[m].Errors)
WrappedErrors(h, m) == h[m].Errors

\* func (e *ErrMessage) StackTrace()
StackTrace(h, e) ==
    IF IsMulti(h, h[e].Err) /\ MultiLen(h, h[e].Err) > ZeroInt
    THEN GetStackTrace(h, WrappedErrors(h, h[e].Err)[ZeroInt + 1])
    ELSE Stack(h[e].Stack)


\* ---------------------------------------------------------------- rendering
RECURSIVE ErrError(_, _)
RECURSIVE Error(_, _)
RECURSIVE MultiErrorFrom(_, _, _)

\* func (e *ErrMessage) Code()
Code(h, e) == Str(h[e].Header) \o <<"-">> \o Itoa(h[e].ErrCode)

\* the aggregate's Error(): its children's texts in insertion order
MultiErrorFrom(h, m, i) ==
    IF i > Len(h[m].Errors) THEN <<>>
    ELSE ErrError(h, h[m].Errors[i]) \o MultiErrorFrom(h, m, i + 1)

MultiError(h, m) == MultiErrorFrom(h, m, 1)

\* e.Err.Error(), by the dynamic type of the value held
ErrError(h, err) ==
    CASE IsPrim(h, err) -> h[err].Raw
      [] IsNode(h, err) -> Error(h, err)
      [] IsMulti(h, err) -> MultiError(h, err)

\* Error leaving out the text of the wrapped error
ErrorWithoutWrapped(h, e) ==
    (Code(h, e) \o <<": ">>) \o h[e].Raw \o <<"\n">>

\* func (e *ErrMessage) Error()
Error(h, e) ==
    LET message == (Code(h, e) \o <<": ">>) \o h[e].Raw \o <<"\n">>
    IN IF h[e].Err # NilErr THEN message \o ErrError(h, h[e].Err) ELSE message

\* func (e *ErrMessage) String()
String(h, e) == Error(h, e)

RECURSIVE Format(_, _, _, _)
RECURSIVE ErrVerbose(_, _)
RECURSIVE MultiFormatFrom(_, _, _)

\* a child of the aggregate under %+v
ErrVerbose(h, err) ==
    CASE IsNode(h, err) -> Format(h, err, "v", TRUE)
      [] IsPrim(h, err) ->
            h[err].Raw \o <<"\n">>
            \o (IF h[err].hasStack THEN StackFormat(h[err].Stack) ELSE <<>>)
      [] IsMulti(h, err) -> MultiFormatFrom(h, err, 1)

\* merr.Format(s, verb) with %+v: every child rendered verbosely, in order
MultiFormatFrom(h, m, i) ==
    IF i > Len(h[m].Errors) THEN <<>>
    ELSE ErrVerbose(h, h[m].Errors[i]) \o MultiFormatFrom(h, m, i + 1)

MultiFormat(h, m) == MultiFormatFrom(h, m, 1)

\* func (e *ErrMessage) Format(s fmt.State, verb rune): the text written to s
Format(h, e, verb, plus) ==
    LET header == (Code(h, e) \o <<": ">>) \o h[e].Raw \o <<"\n">>
        message == IF h[e].Err # NilErr
                   THEN header \o ErrError(h, h[e].Err)
                   ELSE header
    IN CASE verb = "v" /\ plus ->
              IF h[e].Err # NilErr
              THEN IF IsMulti(h, h[e].Err)
                   THEN header \o MultiFormat(h, h[e].Err)
                   ELSE IF IsNode(h, h[e].Err)
                   THEN header \o Format(h, h[e].Err, verb, plus)
                   ELSE header \o ErrError(h, h[e].Err) \o <<"\n">>
                        \o (IF HasStack(h, h[e].Err)
                            THEN StackFormat(GetStackTrace(h, h[e].Err).st)
                            ELSE <<>>)
              ELSE header \o StackFormat(h[e].Stack)
         [] (verb = "v" /\ ~plus) \/ verb = "s" -> message
         [] verb = "q" -> <<"\"">> \o Quote(message) \o <<"\"">>
         [] OTHER -> <<>>

\* --------------------------------------------------------------- operations
\* func newErrMessage(header, errCode, raw, err, stack): the heap with the new
\* node allocated at its end; the pointer returned is Len of the result
newErrMessage(h, header, errCode, raw, err, stack) ==
    Append(h, ErrMessage(header, errCode, raw, err, stack))

\* func NewErrMessage(header, errCode, raw, err), c captures made so far
NewErrMessage(h, c, header, errCode, raw, err) ==
    IF err # NilErr /\ HasStack(h, err)
    THEN LET st == GetStackTrace(h, err)
         IN IF st.ok
            THEN [heap |-> newErrMessage(h, header, errCode, raw, err, st.st),
                  captures |-> c, panic |-> FALSE]
            ELSE [heap |-> h, captures |-> c, panic |-> TRUE]
    ELSE [heap |-> newErrMessage(h, header, errCode, raw, err,
                                 NewStack(c + 1, defaultCallerSkip)),
          captures |-> c + 1, panic |-> FALSE]

\* Clone leaving the wrapped error behind
CloneWithoutErr(h, e) ==
    newErrMessage(h, h[e].Header, h[e].ErrCode, h[e].Raw, NilErr, h[e].Stack)

\* Clone giving the copy no stack
CloneWithoutStack(h, e) ==
    newErrMessage(h, h[e].Header, h[e].ErrCode, h[e].Raw, h[e].Err, <<>>)

\* func (e *ErrMessage) Clone()
Clone(h, e) ==
    newErrMessage(h, h[e].Header, h[e].ErrCode, h[e].Raw, h[e].Err, h[e].Stack)

\* Specify refusing operands that do not match the directives of the message
SpecifyStrict(h, e, ins) ==
    IF Len(ins) = Cardinality({ i \in 1..Len(h[e].Raw) : h[e].Raw[i] \in {"%s", "%!"} })
    THEN [h EXCEPT ![e].Raw = Sprintf(h[e].Raw, ins)]
    ELSE h

\* func (e *ErrMessage) Specify(ins ...interface{})
Specify(h, e, ins) == [h EXCEPT ![e].Raw = Sprintf(h[e].Raw, ins)]

\* Renew binding the operands in the receiver before copying it
RenewInPlace(h, e, ins) == Clone(Specify(h, e, ins), e)

\* func (e *ErrMessage) Renew(ins ...interface{})
Renew(h, e, ins) ==
    LET c == Clone(h, e)
    IN Specify(c, Len(c), ins)

\* ErrorOrNil taking a node for absent only when both fields are zero
ErrorOrNilBothZero(h, e) ==
    IF e = NilErr THEN NilErr
    ELSE IF h[e].Header = EmptyString /\ h[e].ErrCode = ZeroInt THEN NilErr
    ELSE e

\* func (e *ErrMessage) ErrorOrNil(): the error returned, NilErr for nil
ErrorOrNil(h, e) ==
    IF e = NilErr THEN NilErr
    ELSE IF h[e].Header = EmptyString \/ h[e].ErrCode = ZeroInt THEN NilErr
    ELSE e

\* append dropping a node of absent identity and an error already held
MultiAppendFiltered(h, m, err) ==
    IF \/ IsNode(h, err) /\ h[err].Header = EmptyString /\ h[err].ErrCode = ZeroInt
       \/ \E i \in 1..Len(h[m].Errors) : h[m].Errors[i] = err
    THEN h
    ELSE [h EXCEPT ![m].Errors = Append(@, err)]

\* the aggregate: append keeps every error given, at the end
MultiAppend(h, m, err) == [h EXCEPT ![m].Errors = Append(@, err)]

\* ErrorOrNil of the aggregate looking at the children's identity
MultiErrorOrNilByIdentity(h, m) ==
    IF \A i \in 1..Len(h[m].Errors) :
          IsNode(h, h[m].Errors[i]) /\ ErrorOrNil(h, h[m].Errors[i]) = NilErr
    THEN NilErr
    ELSE m

\* the aggregate's ErrorOrNil: absent when it has no children
MultiErrorOrNil(h, m) == IF MultiLen(h, m) = ZeroInt THEN NilErr ELSE m

RECURSIVE Reaches(_, _, _)
\* b is a itself, or is wrapped by or aggregated in a
Reaches(h, a, b) ==
    \/ a = b
    \/ a # NilErr /\ h[a].Err # NilErr /\ Reaches(h, h[a].Err, b)
    \/ a # NilErr /\ \E i \in 1..Len(h[a].Errors) : Reaches(h, h[a].Errors[i], b)


\* ------------------------------------------------------------------ actions
\* the last call made: the operation, its receiver and operands, and what it
\* gave back (a reference, a text, a stack, or a panic)
Call(op, recv, ins, ref, text, st, panic) ==
    [op |-> op, recv |-> recv, ins |-> ins, ref |-> ref, text |-> text,
     st |-> st, panic |-> panic]

NoCall == Call("none", NilErr, <<>>, NilErr, <<>>, <<>>, FALSE)

\* the middleware clients before any call: no query executed, no Consume
\* running, an empty parser result, no request posted
NoExecute == [called |-> FALSE, args |-> <<>>, queries |-> <<>>, err |-> "nil"]

NoConsume ==
    [pc |-> "idle", gpc |-> "none", err |-> "nil", returned |-> "none",
     last |-> "none", calls |-> 0, closes |-> 0, open |-> TRUE,
     pending |-> 0, sent |-> 0, writers |-> {}]

NewEmptyResult == [DBNames |-> <<>>, TableNames |-> <<>>, ColumnNames |-> <<>>]

NoPost ==
    [pc |-> "idle", calls |-> 0, opened |-> FALSE, status |-> 0,
     json |-> "none", deferred |-> FALSE, closes |-> 0, leaked |-> 0,
     body |-> FALSE, err |-> "nil"]

Middleware == <<prom, cg, result, post>>

MiddlewareIdle ==
    /\ prom = NoExecute
    /\ cg = NoConsume
    /\ result = NewEmptyResult
    /\ post = NoPost

Idle == UNCHANGED <<pc, arg, mine, tmp, acc, prom, cg, result, post>>

\* prototypes as the catalog hands them out, and the errors they may wrap
Prototypes ==
    { [Header |-> "DAS", ErrCode |-> 1001, Raw |-> TemplateDAS] }

WrappedKinds == { "plain", "node" }

\* a heap built by the constructors: cell 1 an error of the given kind, cell 2
\* an aggregate holding it, cell 3 the prototype wrapping w (nil, 1 or 2)
ScenarioBase(kind) ==
    LET first ==
          CASE kind = "plain" ->
                  [heap |-> <<Primitive(<<"boom">>, FALSE, <<>>)>>, captures |-> 0]
            [] kind = "node" ->
                  NewErrMessage(<<>>, 0, "X", 0, TemplateX, NilErr)
    IN [heap |-> MultiAppend(Append(first.heap, Aggregate(<<>>)), 2, 1),
        captures |-> first.captures]

Scenario(kind, entry, w) ==
    LET b == ScenarioBase(kind)
    IN NewErrMessage(b.heap, b.captures, entry.Header, entry.ErrCode,
                     entry.Raw, w)

ScenarioLen == Len(ScenarioBase("plain").heap) + 1

\* an error made by another package, with or without a stack of its own
DoNewPrimitive(withStack) ==
    /\ Len(heap) < MaxObj
    /\ heap' = Append(heap, Primitive(<<"boom">>, withStack,
                   IF withStack THEN NewStack(captures + 1, 0) ELSE <<>>))
    /\ captures' = IF withStack THEN captures + 1 ELSE captures
    /\ res' = Call("NewPrimitive", NilErr, <<>>, Len(heap'), <<>>, <<>>, FALSE)
    /\ UNCHANGED nspec
    /\ Idle

\* a call that panics allocates nothing, so it fits in a full heap
DoNewErrMessage(entry, err, cap) ==
    /\ LET r == NewErrMessage(heap, captures, entry.Header, entry.ErrCode,
                              entry.Raw, err)
       IN /\ Len(r.heap) <= cap
          /\ heap' = r.heap
          /\ captures' = r.captures
          /\ res' = Call("NewErrMessage", err, <<>>,
                         IF r.panic THEN NilErr ELSE Len(r.heap), <<>>, <<>>,
                         r.panic)
    /\ UNCHANGED nspec
    /\ Idle

DoClone(e) ==
    /\ Len(heap) < ScenarioLen + MaxCopies
    /\ heap' = Clone(heap, e)
    /\ res' = Call("Clone", e, <<>>, Len(heap'), <<>>, <<>>, FALSE)
    /\ UNCHANGED <<captures, nspec>>
    /\ Idle

DoSpecify(e, ins) ==
    /\ nspec < MaxSpecify
    /\ nspec' = nspec + 1
    /\ Len(Sprintf(heap[e].Raw, ins)) <= MaxRaw
    /\ heap' = Specify(heap, e, ins)
    /\ res' = Call("Specify", e, ins, NilErr, <<>>, <<>>, FALSE)
    /\ UNCHANGED captures
    /\ Idle

DoRenew(e, ins) ==
    /\ Len(heap) < ScenarioLen + MaxCopies
    /\ nspec < MaxSpecify
    /\ nspec' = nspec + 1
    /\ Len(Sprintf(heap[e].Raw, ins)) <= MaxRaw
    /\ heap' = Renew(heap, e, ins)
    /\ res' = Call("Renew", e, ins, Len(heap'), <<>>, <<>>, FALSE)
    /\ UNCHANGED captures
    /\ Idle

DoNewAggregate ==
    /\ Len(heap) < MaxObj
    /\ heap' = Append(heap, Aggregate(<<>>))
    /\ res' = Call("NewAggregate", NilErr, <<>>, Len(heap'), <<>>, <<>>, FALSE)
    /\ UNCHANGED <<captures, nspec>>
    /\ Idle

DoMultiAppend(m, err) ==
    /\ MultiLen(heap, m) < MaxChildren
    /\ ~IsMulti(heap, err)
    /\ ~Reaches(heap, err, m)
    /\ heap' = MultiAppend(heap, m, err)
    /\ res' = Call("Append", m, <<>>, err, <<>>, <<>>, FALSE)
    /\ UNCHANGED <<captures, nspec>>
    /\ Idle

DoErrorOrNil(e) ==
    /\ res' = Call("ErrorOrNil", e, <<>>, ErrorOrNil(heap, e), <<>>, <<>>, FALSE)
    /\ UNCHANGED <<heap, captures, nspec>>
    /\ Idle

DoMultiErrorOrNil(m) ==
    /\ res' = Call("MultiErrorOrNil", m, <<>>, MultiErrorOrNil(heap, m), <<>>,
                   <<>>, FALSE)
    /\ UNCHANGED <<heap, captures, nspec>>
    /\ Idle

DoStackTrace(e) ==
    /\ LET r == StackTrace(heap, e)
       IN res' = Call("StackTrace", e, <<>>, NilErr, <<>>, r.st, ~r.ok)
    /\ UNCHANGED <<heap, captures, nspec>>
    /\ Idle

DoError(e) ==
    /\ res' = Call("Error", e, <<>>, NilErr, Error(heap, e), <<>>, FALSE)
    /\ UNCHANGED <<heap, captures, nspec>>
    /\ Idle

DoString(e) ==
    /\ res' = Call("String", e, <<>>, NilErr, String(heap, e), <<>>, FALSE)
    /\ UNCHANGED <<heap, captures, nspec>>
    /\ Idle

DoFormat(e, verb, plus) ==
    /\ res' = Call(IF plus THEN "Format+" ELSE "Format", e, <<verb>>, NilErr,
                   Format(heap, e, verb, plus), <<>>, FALSE)
    /\ UNCHANGED <<heap, captures, nspec>>
    /\ Idle

Init ==
    /\ heap = <<>>
    /\ captures = 0
    /\ res = NoCall
    /\ nspec = 0
    /\ pc = [i \in 1..NumCallers |-> "idle"]
    /\ arg = [i \in 1..NumCallers |-> <<>>]
    /\ mine = [i \in 1..NumCallers |-> NilErr]
    /\ tmp = [i \in 1..NumCallers |-> <<>>]
    /\ acc = {}
    /\ MiddlewareIdle

Next ==
    \/ \E w \in BOOLEAN : DoNewPrimitive(w)
    \/ \E entry \in Entries, err \in {NilErr} \cup Refs(heap) :
          DoNewErrMessage(entry, err, MaxObj)
    \/ DoNewAggregate
    \/ \E m \in Multis(heap), err \in Refs(heap) : DoMultiAppend(m, err)
    \/ \E e \in {NilErr} \cup Nodes(heap) : DoErrorOrNil(e)
    \/ \E m \in Multis(heap) : DoMultiErrorOrNil(m)
    \/ \E e \in Nodes(heap) : DoStackTrace(e)
    \/ \E e \in Nodes(heap) : DoError(e)
    \/ \E e \in Nodes(heap) : DoString(e)
    \/ \E e \in Nodes(heap), f \in FormatCalls : DoFormat(e, f[1], f[2])

Spec == Init /\ [][Next]_vars


\* ------------------------------------------- copies of a prototype (SpecCopy)
InitCopy ==
    /\ \E kind \in WrappedKinds, entry \in Prototypes, w \in 0..2 :
          /\ heap = Scenario(kind, entry, w).heap
          /\ captures = Scenario(kind, entry, w).captures
    /\ res = NoCall
    /\ nspec = 0
    /\ pc = [i \in 1..NumCallers |-> "idle"]
    /\ arg = [i \in 1..NumCallers |-> <<>>]
    /\ mine = [i \in 1..NumCallers |-> NilErr]
    /\ tmp = [i \in 1..NumCallers |-> <<>>]
    /\ acc = {}
    /\ MiddlewareIdle

NextCopy ==
    \/ \E entry \in Prototypes, err \in Nodes(heap) :
          DoNewErrMessage(entry, err, ScenarioLen + MaxCopies)
    \/ \E e \in Nodes(heap) : DoClone(e)
    \/ \E e \in Nodes(heap), ins \in Ins : DoSpecify(e, ins)
    \/ \E e \in Nodes(heap), ins \in Ins : DoRenew(e, ins)
    \/ \E e \in Nodes(heap) : DoError(e)
    \/ \E e \in Nodes(heap) : DoString(e)
    \/ \E e \in Nodes(heap), f \in CopyFormatCalls : DoFormat(e, f[1], f[2])

SpecCopy == InitCopy /\ [][NextCopy]_vars


\* ---------------------------------- errors that wrap no node (SpecFlat)
Prims(h) == { e \in Refs(h) : h[e].kind = "prim" }

NextFlat ==
    \/ \E w \in BOOLEAN : DoNewPrimitive(w)
    \/ \E entry \in Entries, err \in {NilErr} \cup Prims(heap) :
          DoNewErrMessage(entry, err, MaxObj)
    \/ DoNewAggregate
    \/ \E m \in Multis(heap), err \in Refs(heap) : DoMultiAppend(m, err)
    \/ \E e \in {NilErr} \cup Nodes(heap) : DoErrorOrNil(e)
    \/ \E m \in Multis(heap) : DoMultiErrorOrNil(m)

SpecFlat == Init /\ [][NextFlat]_vars

\* ------------------------- callers of Renew on one prototype (SpecRenew)
\* the shared prototype is cell 1; caller i runs c := e.Clone(); c.Specify(ins...)
Shared == 1

Callers == 1..NumCallers

RenewArgs == { <<"1">>, <<"2">> }

SharedPrototypes ==
    { [Header |-> "DAS", ErrCode |-> 1001, Raw |-> TemplateX],
      [Header |-> "DAS", ErrCode |-> 1001, Raw |-> TemplateDAS] }

Fields == { "Header", "ErrCode", "Raw", "Err", "Stack" }

\* an access of caller i to a field of a cell
Access(i, cell, field, write) ==
    [by |-> i, cell |-> cell, field |-> field, write |-> write]

\* Renew calling Specify on its own receiver, the shared prototype
RenewReceiverShared(e, c) == e

\* the receiver of the Specify call that Renew makes: the clone
RenewReceiver(e, c) == c

InitRenew ==
    /\ \E entry \in SharedPrototypes :
          /\ heap = NewErrMessage(<<>>, 0, entry.Header, entry.ErrCode,
                                  entry.Raw, NilErr).heap
          /\ captures = 1
    /\ res = NoCall
    /\ nspec = 0
    /\ pc = [i \in Callers |-> "idle"]
    /\ arg = [i \in Callers |-> <<>>]
    /\ mine = [i \in Callers |-> NilErr]
    /\ tmp = [i \in Callers |-> <<>>]
    /\ acc = {}
    /\ MiddlewareIdle

\* caller i enters Renew(ins...)
CallRenew(i, ins) ==
    /\ pc[i] = "idle"
    /\ pc' = [pc EXCEPT ![i] = "clone"]
    /\ arg' = [arg EXCEPT ![i] = ins]
    /\ UNCHANGED <<heap, captures, res, nspec, mine, tmp, acc>>
    /\ UNCHANGED Middleware

\* c := e.Clone(): the prototype's fields are read into a new allocation
CloneStep(i) ==
    /\ pc[i] = "clone"
    /\ heap' = Clone(heap, Shared)
    /\ mine' = [mine EXCEPT ![i] = Len(heap')]
    /\ acc' = acc \cup { Access(i, Shared, f, FALSE) : f \in Fields }
                  \cup { Access(i, Len(heap'), f, TRUE) : f \in Fields }
    /\ pc' = [pc EXCEPT ![i] = "format"]
    /\ UNCHANGED <<captures, res, nspec, arg, tmp>>
    /\ UNCHANGED Middleware

\* Specify, first half: fmt.Sprintf(e.Raw, ins...) reads the receiver's Raw
SpecifyFormat(i) ==
    /\ pc[i] = "format"
    /\ LET r == RenewReceiver(Shared, mine[i])
       IN /\ tmp' = [tmp EXCEPT ![i] = Sprintf(heap[r].Raw, arg[i])]
          /\ acc' = acc \cup { Access(i, r, "Raw", FALSE) }
    /\ pc' = [pc EXCEPT ![i] = "assign"]
    /\ UNCHANGED <<heap, captures, res, nspec, arg, mine>>
    /\ UNCHANGED Middleware

\* Specify, second half: e.Raw = the formatted text
SpecifyAssign(i) ==
    /\ pc[i] = "assign"
    /\ LET r == RenewReceiver(Shared, mine[i])
       IN /\ heap' = [heap EXCEPT ![r].Raw = tmp[i]]
          /\ acc' = acc \cup { Access(i, r, "Raw", TRUE) }
    /\ pc' = [pc EXCEPT ![i] = "return"]
    /\ UNCHANGED <<captures, res, nspec, arg, mine, tmp>>
    /\ UNCHANGED Middleware

\* return c
ReturnRenew(i) ==
    /\ pc[i] = "return"
    /\ pc' = [pc EXCEPT ![i] = "done"]
    /\ res' = Call("Renew", Shared, arg[i], mine[i], <<>>, <<>>, FALSE)
    /\ UNCHANGED <<heap, captures, nspec, arg, mine, tmp, acc>>
    /\ UNCHANGED Middleware

NextRenew ==
    \/ \E i \in Callers, ins \in RenewArgs : CallRenew(i, ins)
    \/ \E i \in Callers : CloneStep(i)
    \/ \E i \in Callers : SpecifyFormat(i)
    \/ \E i \in Callers : SpecifyAssign(i)
    \/ \E i \in Callers : ReturnRenew(i)

SpecRenew == InitRenew /\ [][NextRenew]_vars


\* =================================================================== claims

\* C1 (as stated): ErrorOrNil of a non-nil node is absent iff Header is empty
\* AND ErrCode is zero, and is the node itself otherwise.
C1_AbsentIffBothZero ==
    (res.op = "ErrorOrNil" /\ res.recv # NilErr) =>
        /\ (res.ref = NilErr) <=>
              (heap[res.recv].Header = "" /\ heap[res.recv].ErrCode = 0)
        /\ res.ref # NilErr => res.ref = res.recv

\* C1 (amended): ErrorOrNil of a non-nil node is absent iff Header is empty OR
\* ErrCode is zero, and is the node itself only when both are non-zero.
C1_AbsentIffEitherZero ==
    (res.op = "ErrorOrNil" /\ res.recv # NilErr) =>
        /\ (res.ref = NilErr) <=>
              (heap[res.recv].Header = "" \/ heap[res.recv].ErrCode = 0)
        /\ res.ref # NilErr => res.ref = res.recv

C1_Witness ==
    /\ res.op = "ErrorOrNil"
    /\ res.recv # NilErr
    /\ heap[res.recv].Header = "X"
    /\ heap[res.recv].ErrCode = 0
    /\ res.ref = NilErr

\* what one step may do to the heap when it copies or binds a node
C2_StepIsolated ==
    /\ (res'.op \in {"Clone", "Renew"} /\ Len(heap') = Len(heap) + 1) =>
          /\ \A i \in Refs(heap) : heap'[i] = heap[i]
          /\ LET c == heap'[res'.ref]
                 p == heap[res'.recv]
             IN /\ res'.ref = Len(heap')
                /\ c.kind = "node"
                /\ c.Header = p.Header
                /\ c.ErrCode = p.ErrCode
                /\ c.Err = p.Err
                /\ c.Stack = p.Stack
                /\ c.Raw = IF res'.op = "Renew"
                           THEN Sprintf(p.Raw, res'.ins)
                           ELSE p.Raw
    /\ (res'.op = "Specify" /\ nspec' = nspec + 1) =>
          /\ Len(heap') = Len(heap)
          /\ \A i \in Refs(heap) : i # res'.recv => heap'[i] = heap[i]
          /\ heap'[res'.recv] =
                [heap[res'.recv] EXCEPT !.Raw = Sprintf(@, res'.ins)]

\* C2: a Clone or Renew step allocates one node and changes no existing cell;
\* the copy has the receiver's Header, ErrCode, Err and Stack, and its message
\* is the receiver's (Clone) or the receiver's template bound with the operands
\* (Renew); a Specify step changes the Raw of its receiver and nothing else.
C2_RenewCloneIsolation == [][C2_StepIsolated]_vars

\* two copies of the prototype in cell 3, bound with different operands, next
\* to the untouched prototype
C2_Witness ==
    /\ res.op = "Renew"
    /\ res.recv = ScenarioLen
    /\ res.ins = <<"db1", "timeout">>
    /\ heap[ScenarioLen].Raw = TemplateDAS
    /\ heap[res.ref].Raw = Sprintf(TemplateDAS, <<"db1", "timeout">>)
    /\ \E a \in Nodes(heap) :
          a # res.ref /\ heap[a].Raw = Sprintf(TemplateDAS, <<"1">>)


\* what one NewErrMessage step gives, by the stack its err exposes
C3_StepInherits ==
    (res'.op = "NewErrMessage" /\ (Len(heap') = Len(heap) + 1 \/ res'.panic)) =>
        /\ ~res'.panic
        /\ res'.ref = Len(heap')
        /\ IF res'.recv # NilErr /\ HasStack(heap, res'.recv)
           THEN /\ StackTrace(heap', res'.ref) = GetStackTrace(heap, res'.recv)
                /\ StackTrace(heap', res'.ref).ok
                /\ captures' = captures
           ELSE /\ heap'[res'.ref].Stack = NewStack(captures + 1, defaultCallerSkip)
                /\ captures' = captures + 1

\* C3: a NewErrMessage call whose err is non-nil and exposes a stack gives a
\* node whose StackTrace() is err's stack trace, with no new capture; a call
\* whose err is nil or exposes no stack gives a node whose stack is the fresh
\* capture made by the call.
C3_StackInheritance == [][C3_StepInherits]_vars

\* the nodes from e inwards while the wrapped error is a node
RECURSIVE ChainHeaders(_, _)
ChainHeaders(h, e) ==
    ((Code(h, e) \o <<": ">>) \o h[e].Raw \o <<"\n">>)
    \o (IF IsNode(h, h[e].Err) THEN ChainHeaders(h, h[e].Err) ELSE <<>>)

RECURSIVE IsChain(_, _)
\* e wraps nothing, a primitive error, or a node that is again a chain
IsChain(h, e) ==
    \/ h[e].Err = NilErr
    \/ IsPrim(h, h[e].Err)
    \/ IsNode(h, h[e].Err) /\ IsChain(h, h[e].Err)

\* the stack sections of a text: the frames that do not continue a section
StackSections(text) ==
    Cardinality({ i \in 1..Len(text) :
                    text[i] = "fn" /\ (i <= 2 \/ text[i - 2] # "file") })

IsPrefix(a, b) == Len(a) <= Len(b) /\ SubSeq(b, 1, Len(a)) = a

\* C5: the %+v rendering of a chain of nodes starts with one header line per
\* node, outermost first, and holds exactly one stack section.
C5_OneStackSection ==
    (res.op = "Format+" /\ IsChain(heap, res.recv)) =>
        /\ IsPrefix(ChainHeaders(heap, res.recv), res.text)
        /\ StackSections(res.text) = 1

\* C6: StackTrace() of a node wrapping a non-empty aggregate returns the stack
\* of the aggregate's first child; of a node wrapping an empty aggregate, nil,
\* a primitive error or a node it returns the node's own Stack.
C6_StackTraceDelegates ==
    res.op = "StackTrace" =>
        /\ ~res.panic
        /\ LET e == res.recv
               w == heap[e].Err
           IN IF IsMulti(heap, w) /\ Len(heap[w].Errors) > 0
              THEN LET c == heap[w].Errors[1]
                   IN res.st = IF IsNode(heap, c)
                                THEN StackTrace(heap, c).st
                                ELSE heap[c].Stack
              ELSE res.st = heap[e].Stack


\* the compact renderings: Error(), String(), and Format with %s or plain %v
IsCompactCall ==
    \/ res.op \in {"Error", "String"}
    \/ res.op = "Format" /\ res.ins \in { <<"s">>, <<"v">> }

ScenarioAText ==
    <<"DAS", "-", "1", "0", "0", "1", ": ",
      "failed to connect to ", "db1", ": ", "timeout">>

IsScenarioA(e) ==
    /\ heap[e].Header = "DAS"
    /\ heap[e].ErrCode = 1001
    /\ heap[e].Raw = Sprintf(TemplateDAS, <<"db1", "timeout">>)
    /\ heap[e].Err = NilErr

\* C4 (as stated): the compact rendering is "{Code}: {Raw}\n{Err.Error()}" with
\* a wrapped error and exactly "{Code}: {Raw}" without one; scenario A renders
\* "DAS-1001: failed to connect to db1: timeout".
C4_CompactEndsAtMessage ==
    IsCompactCall =>
        LET e == res.recv
            line == (Code(heap, e) \o <<": ">>) \o heap[e].Raw
        IN /\ res.text = IF heap[e].Err # NilErr
                         THEN line \o <<"\n">> \o ErrError(heap, heap[e].Err)
                         ELSE line
           /\ IsScenarioA(e) => res.text = ScenarioAText

\* C4 (amended): the compact rendering is "{Code}: {Raw}\n" followed by
\* Err.Error() with a wrapped error and by nothing without one; scenario A
\* renders "DAS-1001: failed to connect to db1: timeout\n".
C4_CompactEndsWithNewline ==
    IsCompactCall =>
        LET e == res.recv
            line == (Str(heap[e].Header) \o <<"-">> \o Itoa(heap[e].ErrCode)
                     \o <<": ">>) \o heap[e].Raw \o <<"\n">>
        IN /\ res.text = IF heap[e].Err # NilErr
                         THEN line \o ErrError(heap, heap[e].Err)
                         ELSE line
           /\ IsScenarioA(e) => res.text = ScenarioAText \o <<"\n">>

C4_Witness ==
    /\ res.op = "Error"
    /\ IsScenarioA(res.recv)
    /\ res.text = ScenarioAText \o <<"\n">>

\* C7: callers of Renew on the shared prototype never write a field of it;
\* every write goes to the cell the writer's own Clone allocated; no field is
\* written by one caller and accessed by another; and a caller that is done
\* holds the prototype's template bound with its own operands.
C7_RenewRaceFree ==
    /\ \E entry \in SharedPrototypes :
          heap[Shared] = NewErrMessage(<<>>, 0, entry.Header, entry.ErrCode,
                                       entry.Raw, NilErr).heap[1]
    /\ \A a \in acc : a.write => (a.cell # Shared /\ a.cell = mine[a.by])
    /\ \A a, b \in acc :
          (a.by # b.by /\ a.cell = b.cell /\ a.field = b.field) =>
              (~a.write /\ ~b.write)
    /\ \A i \in Callers :
          pc[i] = "done" =>
              /\ mine[i] # Shared
              /\ heap[mine[i]] =
                    [heap[Shared] EXCEPT !.Raw = Sprintf(@, arg[i])]
    /\ \A i, j \in Callers : (i # j /\ mine[i] # NilErr) => mine[i] # mine[j]

C7_Witness ==
    /\ \A i \in Callers : pc[i] = "done"
    /\ arg[1] # arg[2]
    /\ heap[mine[1]].Raw # heap[mine[2]].Raw

\* C8: ErrorOrNil of an aggregate is absent iff the aggregate has no children.
C8_AbsentIffEmpty ==
    res.op = "MultiErrorOrNil" =>
        /\ (res.ref = NilErr) <=> (MultiLen(heap, res.recv) = 0)
        /\ res.ref # NilErr => res.ref = res.recv

\* an aggregate whose only child has absent identity is itself present
C8_Witness ==
    /\ res.op = "MultiErrorOrNil"
    /\ res.ref = res.recv
    /\ MultiLen(heap, res.recv) = 1
    /\ IsNode(heap, heap[res.recv].Errors[1])
    /\ ErrorOrNil(heap, heap[res.recv].Errors[1]) = NilErr

\* what one append step does to the children
C9_StepAppends ==
    (res'.op = "Append" /\ (heap' # heap \/ res' # res)) =>
        /\ heap'[res'.recv].Errors = Append(heap[res'.recv].Errors, res'.ref)
        /\ MultiLen(heap', res'.recv) = MultiLen(heap, res'.recv) + 1
        /\ \A i \in Refs(heap) : i # res'.recv => heap'[i] = heap[i]

\* C9: an append step puts the error given at the end of the children, whatever
\* its identity and whether or not it is held already: the length grows by one
\* and the children before it keep their places.
C9_AppendKeepsAll == [][C9_StepAppends]_vars

\* the same absent-identity node held twice
C9_Witness ==
    \E m \in Multis(heap) :
        /\ res.op = "Append"
        /\ res.recv = m
        /\ heap[m].Errors = <<res.ref, res.ref>>
        /\ IsNode(heap, res.ref)
        /\ heap[res.ref].Header = ""
        /\ heap[res.ref].ErrCode = 0

RECURSIVE WrapChain(_, _)
\* the nodes met from e inwards, through wrapped nodes and through the
\* children of wrapped aggregates
WrapChain(h, e) ==
    {e} \cup (IF IsNode(h, h[e].Err) THEN WrapChain(h, h[e].Err)
              ELSE IF IsMulti(h, h[e].Err)
              THEN UNION { WrapChain(h, h[h[e].Err].Errors[i]) :
                             i \in { j \in 1..Len(h[h[e].Err].Errors) :
                                       IsNode(h, h[h[e].Err].Errors[j]) } }
              ELSE {})

\* what a wrapped error renders by itself
WrappedRendering(h, w) ==
    CASE IsNode(h, w) -> Format(h, w, "v", TRUE)
      [] IsPrim(h, w) -> h[w].Raw
      [] IsMulti(h, w) -> MultiFormat(h, w)

Contains(text, part) ==
    \E i \in 0..(Len(text) - Len(part)) : SubSeq(text, i + 1, i + Len(part)) = part

\* what one step does to the wrapped errors, and what a rendering shows of them
C10_StepKeepsWrapped ==
    /\ Len(heap') >= Len(heap)
    /\ \A e \in Nodes(heap) : heap'[e].Err = heap[e].Err
    /\ (res'.op \in {"Clone", "Renew"} /\ Len(heap') = Len(heap) + 1) =>
          heap'[Len(heap')].Err = heap[res'.recv].Err
    /\ res'.op = "Format+" =>
          \A d \in WrapChain(heap', res'.recv) :
              heap'[d].Err # NilErr =>
                  Contains(res'.text, WrappedRendering(heap', heap'[d].Err))

\* C10: no step changes the Err of an existing node; a Clone or Renew gives the
\* copy the receiver's Err; and the %+v rendering of a node holds, for every
\* node of its chain that wraps an error, that error's own rendering.
C10_WrappedNeverSwallowed == [][C10_StepKeepsWrapped]_vars

\* a node wrapping a bound copy that itself wraps an error, rendered with %+v
C10_Witness ==
    /\ res.op = "Format+"
    /\ res.recv > ScenarioLen
    /\ nspec > 0
    /\ IsNode(heap, heap[res.recv].Err)
    /\ heap[res.recv].Err > ScenarioLen
    /\ heap[heap[res.recv].Err].Err # NilErr
    /\ heap[heap[res.recv].Err].Raw # TemplateDAS


\* C11: every StackTrace() call on a node completes and returns a stack,
\* whatever the node wraps (nil, a primitive with or without a stack, a node,
\* an aggregate whose first child has no stack).
C11_StackTraceCompletes ==
    res.op = "StackTrace" => (~res.panic /\ res.st # <<>>)


\* ------------------------------- every operation of a node (SpecStack)
DoCode(e) ==
    /\ res' = Call("Code", e, <<>>, NilErr, Code(heap, e), <<>>, FALSE)
    /\ UNCHANGED <<heap, captures, nspec>>
    /\ Idle

NextStack ==
    \/ \E e \in Nodes(heap) : DoClone(e)
    \/ \E e \in Nodes(heap), ins \in Ins : DoSpecify(e, ins)
    \/ \E e \in Nodes(heap), ins \in Ins : DoRenew(e, ins)
    \/ \E e \in Nodes(heap) : DoCode(e)
    \/ \E e \in Nodes(heap) : DoError(e)
    \/ \E e \in Nodes(heap) : DoString(e)
    \/ \E e \in Nodes(heap), f \in CopyFormatCalls : DoFormat(e, f[1], f[2])
    \/ \E e \in Nodes(heap) : DoErrorOrNil(e)
    \/ \E e \in Nodes(heap) : DoStackTrace(e)

SpecStack == InitCopy /\ [][NextStack]_vars

\* what one step may do to the Stack fields
C12_StepKeepsStack ==
    /\ Len(heap') >= Len(heap)
    /\ \A e \in Nodes(heap) :
          IsNode(heap', e) /\ heap'[e].Stack = heap[e].Stack
    /\ (res'.op \in {"Clone", "Renew"} /\ Len(heap') = Len(heap) + 1) =>
          /\ IsNode(heap', res'.ref)
          /\ heap'[res'.ref].Stack = heap[res'.recv].Stack

\* C12: no step (Specify, Renew, Clone, Code, Error, String, Format,
\* ErrorOrNil, StackTrace) changes the Stack of an existing node, and the copy
\* a Clone or Renew allocates has the Stack of its receiver.
C12_StackImmutable == [][C12_StepKeepsStack]_vars

\* a copy of a bound copy of the prototype, all three with the one stack
C12_Witness ==
    /\ res.op = "Clone"
    /\ res.recv > ScenarioLen
    /\ nspec > 0
    /\ heap[res.recv].Raw # heap[ScenarioLen].Raw
    /\ heap[res.ref].Stack = heap[ScenarioLen].Stack
    /\ heap[res.ref].Stack # <<>>


\* the template the catalog entry of a node's (Header, ErrCode) holds
EntryTemplate(h, e) ==
    (CHOOSE entry \in Entries :
        entry.Header = h[e].Header /\ entry.ErrCode = h[e].ErrCode).Raw

\* what one Specify step gives its receiver, by the entry's template
C13_StepBindsTemplate ==
    (res'.op = "Specify" /\ nspec' = nspec + 1) =>
        /\ Len(heap') = Len(heap)
        /\ heap'[res'.recv] =
              [heap[res'.recv] EXCEPT
                  !.Raw = Sprintf(EntryTemplate(heap, res'.recv), res'.ins)]

\* C13: a Specify step changes the receiver in place, leaves its Header,
\* ErrCode, Err and Stack as they were, and sets its message to the entry's
\* template bound with the operands of this call, also when the node was
\* bound before.
C13_SpecifyBindsTemplate == [][C13_StepBindsTemplate]_vars


\* the directives of a format, and the occurrences of a marker in a text
Directives(format) ==
    Cardinality({ i \in 1..Len(format) : format[i] \in {"%s", "%!"} })

Missing(text) ==
    Cardinality({ i \in 1..Len(text) : text[i] \in {"s(MISSING)", "!(MISSING)"} })

Extra(text) == Cardinality({ i \in 1..Len(text) : text[i] = "(EXTRA " })

\* what one Specify or Renew step gives, by the operands against the
\* directives of the receiver's message
C14_StepDegrades ==
    (res'.op \in {"Specify", "Renew"} /\ nspec' = nspec + 1) =>
        LET t == IF res'.op = "Renew" THEN res'.ref ELSE res'.recv
            old == heap[res'.recv].Raw
            new == heap'[t].Raw
            n == Len(res'.ins)
        IN /\ ~res'.panic
           /\ IsNode(heap', t)
           /\ heap'[t].Header = heap[res'.recv].Header
           /\ heap'[t].ErrCode = heap[res'.recv].ErrCode
           /\ new = Sprintf(old, res'.ins)
           /\ n < Directives(old) =>
                 (Missing(new) > Missing(old) /\ Extra(new) = Extra(old))
           /\ n > Directives(old) =>
                 (Extra(new) = Extra(old) + 1 /\ Missing(new) = Missing(old))
           /\ n = Directives(old) =>
                 (Missing(new) = Missing(old) /\ Extra(new) = Extra(old))

\* C14: a Specify or Renew step completes for fewer, as many and more operands
\* than the message has directives: it never panics, the node keeps its Header
\* and ErrCode, and its message is the formatted text, with a MISSING marker
\* for each directive left without an operand and one EXTRA marker for the
\* operands left over.
C14_MismatchDegrades == [][C14_StepDegrades]_vars

\* a copy bound with one operand too few, then a node bound with one too many
C14_Witness ==
    /\ res.op = "Specify"
    /\ res.ins = <<"db1", "timeout">>
    /\ heap[res.recv].Header = "X"
    /\ Extra(heap[res.recv].Raw) = 1
    /\ \E c \in Nodes(heap) :
          /\ c > ScenarioLen
          /\ heap[c].Header = "DAS"
          /\ heap[c].ErrCode = 1001
          /\ Missing(heap[c].Raw) = 1


\* ================================================= middleware/prometheus
\* ----------------------------------------------------- Conn.executeContext
MaxArgs == 4
MaxTime == 2

\* the step of the two-argument form, one minute in seconds
DefaultStep == 60

Times == 1..MaxTime

\* values handed in as arguments; every value has the fields of all kinds
Time(t) == [type |-> "time.Time", t |-> t, end |-> 0, step |-> 0]
Duration(d) == [type |-> "time.Duration", t |-> 0, end |-> 0, step |-> d]
Other(n) == [type |-> "int", t |-> n, end |-> 0, step |-> 0]
NewTimeRange(start, end, step) ==
    [type |-> "TimeRange", t |-> start, end |-> end, step |-> step]

ArgValues ==
    { Time(t) : t \in Times } \cup { Duration(15), Other(1), NewTimeRange(1, 2, 15) }

RECURSIVE SeqsUpTo(_, _)
SeqsUpTo(S, n) ==
    IF n = 0 THEN { <<>> }
    ELSE SeqsUpTo(S, n - 1)
         \cup { Append(q, x) : q \in { r \in SeqsUpTo(S, n - 1) : Len(r) = n - 1 },
                               x \in S }

ArgLists == SeqsUpTo(ArgValues, MaxArgs)

\* the calls made on the Prometheus API: Query at a time, QueryRange over a range
Query(ts) == [api |-> "Query", t |-> ts, end |-> 0, step |-> 0]
QueryRange(r) == [api |-> "QueryRange", t |-> r.t, end |-> r.end, step |-> r.step]

\* TimeRange.GetRange(): start, end and step as the API's Range
GetRange(tr) == [t |-> tr.t, end |-> tr.end, step |-> tr.step]

\* the first switch with no type assertion on its two-argument form
ArgOfUnchecked(args, now) ==
    CASE Len(args) = 0 -> [err |-> "nil", arg |-> Time(now)]
      [] Len(args) = 1 -> [err |-> "nil", arg |-> args[ZeroInt + 1]]
      [] Len(args) = 2 ->
            [err |-> "nil", arg |-> NewTimeRange(args[1].t, args[2].t, DefaultStep)]
      [] OTHER -> [err |-> "length", arg |-> Other(0)]

\* switch len(args): the one argument the query is made from, or the error
ArgOf(args, now) ==
    CASE Len(args) = 0 -> [err |-> "nil", arg |-> Time(now)]
      [] Len(args) = 1 -> [err |-> "nil", arg |-> args[ZeroInt + 1]]
      [] Len(args) = 2 ->
            IF ~(args[1].type = "time.Time" /\ args[2].type = "time.Time")
            THEN [err |-> "args2", arg |-> Other(0)]
            ELSE [err |-> "nil",
                  arg |-> NewTimeRange(args[1].t, args[2].t, DefaultStep)]
      [] Len(args) = 3 ->
            IF ~(/\ args[1].type = "time.Time"
                 /\ args[2].type = "time.Time"
                 /\ args[3].type = "time.Duration")
            THEN [err |-> "args3", arg |-> Other(0)]
            ELSE [err |-> "nil",
                  arg |-> NewTimeRange(args[1].t, args[2].t, args[3].step)]
      [] OTHER -> [err |-> "length", arg |-> Other(0)]

\* func (conn *Conn) executeContext(ctx, command, args...): now is time.Now(),
\* fail whether the API call made, if any, returns an error
executeContext(args, now, fail) ==
    LET a == ArgOf(args, now)
        call == [called |-> TRUE, args |-> args, now |-> now]
    IN IF a.err # "nil"
       THEN call @@ [queries |-> <<>>, err |-> a.err]
       ELSE CASE a.arg.type = "time.Time" ->
                    call @@ [queries |-> <<Query(a.arg.t)>>,
                             err |-> IF fail THEN "query" ELSE "nil"]
              [] a.arg.type = "TimeRange" ->
                    call @@ [queries |-> <<QueryRange(GetRange(a.arg))>>,
                             err |-> IF fail THEN "query" ELSE "nil"]
              [] OTHER -> call @@ [queries |-> <<>>, err |-> "type"]

ErrMessageIdle == UNCHANGED <<heap, captures, res, nspec, pc, arg, mine, tmp, acc>>

\* one call is followed: Conn keeps nothing from one call to the next
DoExecute(args, now, fail) ==
    /\ ~prom.called
    /\ prom' = executeContext(args, now, fail)
    /\ UNCHANGED <<cg, result, post>>
    /\ ErrMessageIdle

InitMiddleware ==
    /\ heap = <<>>
    /\ captures = 0
    /\ res = NoCall
    /\ nspec = 0
    /\ pc = [i \in 1..NumCallers |-> "idle"]
    /\ arg = [i \in 1..NumCallers |-> <<>>]
    /\ mine = [i \in 1..NumCallers |-> NilErr]
    /\ tmp = [i \in 1..NumCallers |-> <<>>]
    /\ acc = {}
    /\ MiddlewareIdle

NextExecute ==
    \E args \in ArgLists, now \in Times, fail \in BOOLEAN :
        DoExecute(args, now, fail)

SpecExecute == InitMiddleware /\ [][NextExecute]_vars

\* the argument lists the doc comment of executeContext allows
ValidArgs(args) ==
    \/ Len(args) = 0
    \/ Len(args) = 1 /\ args[1].type \in {"time.Time", "TimeRange"}
    \/ Len(args) = 2 /\ args[1].type = "time.Time" /\ args[2].type = "time.Time"
    \/ /\ Len(args) = 3
       /\ args[1].type = "time.Time"
       /\ args[2].type = "time.Time"
       /\ args[3].type = "time.Duration"

\* C16: executeContext returns an error and issues no query when its arguments
\* are invalid (more than three, two that are not Time and Time, three that
\* are not Time, Time and Duration, one that is neither a Time nor a
\* TimeRange); otherwise it issues exactly one query: an instant query at now
\* for no argument, an instant query at the Time given, a range query over the
\* TimeRange given, over start and end with the default step for two
\* arguments, and over start, end and step for three.
C16_ArgsValidated ==
    prom.called =>
        LET a == prom.args
        IN IF ~ValidArgs(a)
           THEN prom.queries = <<>> /\ prom.err \notin {"nil", "query"}
           ELSE /\ prom.err \in {"nil", "query"}
                /\ prom.queries =
                      CASE Len(a) = 0 -> <<Query(prom.now)>>
                        [] Len(a) = 1 /\ a[1].type = "time.Time" -> <<Query(a[1].t)>>
                        [] Len(a) = 1 /\ a[1].type = "TimeRange" ->
                              <<[api |-> "QueryRange", t |-> a[1].t,
                                 end |-> a[1].end, step |-> a[1].step]>>
                        [] Len(a) = 2 ->
                              <<[api |-> "QueryRange", t |-> a[1].t,
                                 end |-> a[2].t, step |-> DefaultStep]>>
                        [] Len(a) = 3 ->
                              <<[api |-> "QueryRange", t |-> a[1].t,
                                 end |-> a[2].t, step |-> a[3].step]>>

\* start and end given with no step: one range query with the default step
C16_Witness ==
    /\ prom.called
    /\ prom.args = <<Time(1), Time(2)>>
    /\ prom.err = "nil"
    /\ prom.queries = <<QueryRange(NewTimeRange(1, 2, DefaultStep))>>


\* ====================================================== middleware/kafka
\* -------------------------------------------------- ConsumerGroup.Consume
\* cg.err is the named result err of Consume, shared by the function body, its
\* deferred closure and the goroutine it starts; cg.writers is the set of
\* threads of control that have assigned it.  The group is not nil.
MaxConsume == 3
MaxAsync == 2

ConsumeIdle == UNCHANGED <<prom, result, post>> /\ ErrMessageIdle

\* Consume is entered: the closure is deferred and the goroutine started
StartConsume ==
    /\ cg.pc = "idle"
    /\ cg' = [cg EXCEPT !.pc = "loop", !.gpc = "ranging"]
    /\ ConsumeIdle

\* err = cg.Group.Consume(cg.Ctx, topics, handler), giving nil or an error
GroupConsume(out) ==
    /\ cg.pc = "loop"
    /\ cg.calls < MaxConsume
    /\ out = "nil" => cg.calls + 1 < MaxConsume
    /\ cg' = [cg EXCEPT !.pc = "test", !.err = out, !.last = out,
                        !.calls = @ + 1, !.writers = @ \cup {"main"}]
    /\ ConsumeIdle

\* if err != nil { return err }: err is read as it is now
TestErr ==
    /\ cg.pc = "test"
    /\ cg' = [cg EXCEPT !.pc = IF cg.err # "nil" THEN "return" ELSE "loop"]
    /\ ConsumeIdle

\* the deferred closure: err = cg.Group.Close(), giving nil or an error
DeferredClose(out) ==
    /\ cg.pc = "return"
    /\ cg' = [cg EXCEPT !.pc = "closed", !.err = out, !.closes = @ + 1,
                        !.open = FALSE, !.writers = @ \cup {"main"}]
    /\ ConsumeIdle

\* the caller receives the named result
ReturnConsume ==
    /\ cg.pc = "closed"
    /\ cg' = [cg EXCEPT !.pc = "done", !.returned = cg.err]
    /\ ConsumeIdle

\* the group puts an error on its Errors() channel
AsyncError ==
    /\ cg.open
    /\ cg.sent < MaxAsync
    /\ cg' = [cg EXCEPT !.pending = @ + 1, !.sent = @ + 1]
    /\ ConsumeIdle

\* for err = range cg.Group.Errors(): the goroutine receives into err
GoroutineReceive ==
    /\ cg.gpc = "ranging"
    /\ cg.pending > 0
    /\ cg' = [cg EXCEPT !.err = "async", !.pending = @ - 1,
                        !.writers = @ \cup {"goroutine"}]
    /\ ConsumeIdle

\* the channel is closed and drained: the range loop and the goroutine end
GoroutineExit ==
    /\ cg.gpc = "ranging"
    /\ ~cg.open
    /\ cg.pending = 0
    /\ cg' = [cg EXCEPT !.gpc = "exited"]
    /\ ConsumeIdle

NextConsume ==
    \/ StartConsume
    \/ \E out \in {"nil", "consume"} : GroupConsume(out)
    \/ TestErr
    \/ \E out \in {"nil", "close"} : DeferredClose(out)
    \/ ReturnConsume
    \/ AsyncError
    \/ GoroutineReceive
    \/ GoroutineExit

SpecConsume == InitMiddleware /\ [][NextConsume]_vars

\* C17: when Consume has returned, the group has been closed exactly once and
\* the error returned is not nil.
C17_ReturnsNonNil ==
    cg.pc = "done" => (cg.closes = 1 /\ cg.returned # "nil")

\* C18: err is assigned by one thread of control only, and the value Consume
\* returns is never an error received from the Errors() channel.
C18_SingleWriter ==
    /\ Cardinality(cg.writers) <= 1
    /\ cg.pc = "done" => cg.returned # "async"


\* ================================================= middleware/sql/parser
\* ------------------------------------------------------------------ Result
\* the names the visitor may meet; one name may be a db, a table and a column
Names == { "a", "b", "c" }

\* common.StringInSlice(s, str): str is an element of s
StringInSlice(list, name) == \E i \in 1..Len(list) : list[i] = name

\* AddDBName appending without looking the name up
AddDBNameAlways(r, dbName) == [r EXCEPT !.DBNames = Append(@, dbName)]

\* func (r *Result) AddDBName(dbName string)
AddDBName(r, dbName) ==
    IF ~StringInSlice(r.DBNames, dbName)
    THEN [r EXCEPT !.DBNames = Append(@, dbName)]
    ELSE r

\* func (r *Result) AddTableName(tableName string)
AddTableName(r, tableName) ==
    IF ~StringInSlice(r.TableNames, tableName)
    THEN [r EXCEPT !.TableNames = Append(@, tableName)]
    ELSE r

\* func (r *Result) AddColumn(columnName string)
AddColumn(r, columnName) ==
    IF ~StringInSlice(r.ColumnNames, columnName)
    THEN [r EXCEPT !.ColumnNames = Append(@, columnName)]
    ELSE r

ParseIdle ==
    UNCHANGED <<heap, captures, nspec, pc, arg, mine, tmp, acc, prom, cg, post>>

DoAddDBName(name) ==
    /\ result' = AddDBName(result, name)
    /\ res' = Call("AddDBName", NilErr, <<name>>, NilErr, <<>>, <<>>, FALSE)
    /\ ParseIdle

DoAddTableName(name) ==
    /\ result' = AddTableName(result, name)
    /\ res' = Call("AddTableName", NilErr, <<name>>, NilErr, <<>>, <<>>, FALSE)
    /\ ParseIdle

DoAddColumn(name) ==
    /\ result' = AddColumn(result, name)
    /\ res' = Call("AddColumn", NilErr, <<name>>, NilErr, <<>>, <<>>, FALSE)
    /\ ParseIdle

NextParse ==
    \/ \E name \in Names : DoAddDBName(name)
    \/ \E name \in Names : DoAddTableName(name)
    \/ \E name \in Names : DoAddColumn(name)

SpecParse == InitMiddleware /\ [][NextParse]_vars

NoDuplicate(list) ==
    \A i, j \in 1..Len(list) : list[i] = list[j] => i = j

\* what one Add step does to the three lists
C19_StepAdds ==
    res'.op \in {"AddDBName", "AddTableName", "AddColumn"} =>
        LET name == res'.ins[1]
            Step(old, new, mine_) ==
                IF ~mine_ THEN new = old
                ELSE IF \E i \in 1..Len(old) : old[i] = name THEN new = old
                ELSE new = Append(old, name)
        IN /\ Step(result.DBNames, result'.DBNames, res'.op = "AddDBName")
           /\ Step(result.TableNames, result'.TableNames, res'.op = "AddTableName")
           /\ Step(result.ColumnNames, result'.ColumnNames, res'.op = "AddColumn")
           /\ NoDuplicate(result'.DBNames)
           /\ NoDuplicate(result'.TableNames)
           /\ NoDuplicate(result'.ColumnNames)

\* C19: from NewEmptyResult, every AddDBName, AddTableName and AddColumn step
\* leaves the three lists without duplicates: a name already in its list
\* changes nothing, a new name is appended at the end of its list with the
\* names before it kept in their order, and the other two lists stay as they
\* were.
C19_ListsDuplicateFree == [][C19_StepAdds]_vars

\* a db name added a second time, after another one, to lists sharing names
C19_Witness ==
    /\ res.op = "AddDBName"
    /\ res.ins = <<"b">>
    /\ result.DBNames = <<"b", "a">>
    /\ result.TableNames = <<"a", "b">>
    /\ result.ColumnNames = <<"c">>


\* ================================================================== http
\* ---------------------------------------------------------- Client.PostDAS
\* post.opened: the call has a response, whose body is to be closed;
\* post.closes: the Close calls made on it; post.leaked: the bodies earlier
\* calls left open; post.body and post.err: the results, body being non-nil
MaxPosts == 4

StatusOK == 200
StatusInternalServerError == 500

Statuses == { StatusOK, StatusInternalServerError }

\* jsonparser.GetInt(respBody, "code"): the code field is 0, is another
\* number, is missing, or is not a number; code is 0 whenever err is not nil
GetInt(json) ==
    CASE json = "zero" -> [code |-> ZeroInt, err |-> "nil"]
      [] json = "nonzero" -> [code |-> 7, err |-> "nil"]
      [] json = "missing" -> [code |-> ZeroInt, err |-> "KeyPathNotFound"]
      [] json = "bad" -> [code |-> ZeroInt, err |-> "NotANumber"]

\* errs.As(err, &jsonparser.KeyPathNotFoundError): the target is a pointer to
\* a variable of the interface type error, to which every non-nil error is
\* assignable
As(err, target) == err # "nil"

PostIdle ==
    /\ UNCHANGED <<prom, cg, result>>
    /\ ErrMessageIdle

\* resp, err := c.Post(url, body); if err != nil { return nil, err }
Post(ok, status) ==
    /\ post.pc \in {"idle", "done"}
    /\ post.calls < MaxPosts
    /\ LET leaked == IF post.opened /\ post.closes = 0
                     THEN post.leaked + 1 ELSE post.leaked
           call == [NoPost EXCEPT !.calls = post.calls + 1, !.leaked = leaked]
       IN post' = IF ok
                  THEN [call EXCEPT !.pc = "read", !.opened = TRUE,
                                    !.status = status]
                  ELSE [call EXCEPT !.pc = "done", !.err = "post"]
    /\ PostIdle

\* respBody, err := io.ReadAll(resp.Body); a failure returns before the defer
\* statement, a success goes on to it
ReadAll(ok) ==
    /\ post.pc = "read"
    /\ post' = IF ok
               THEN [post EXCEPT !.pc = "status", !.deferred = TRUE]
               ELSE [post EXCEPT !.pc = "done", !.err = "read"]
    /\ PostIdle

\* if resp.StatusCode != http.StatusOK { return nil, ... }
CheckStatus ==
    /\ post.pc = "status"
    /\ post' = IF post.status # StatusOK
               THEN [post EXCEPT !.pc = "closing", !.err = "status"]
               ELSE [post EXCEPT !.pc = "parse"]
    /\ PostIdle

\* code, err := jsonparser.GetInt(...) and the two tests on it
CheckCode(json) ==
    /\ post.pc = "parse"
    /\ LET r == GetInt(json)
       IN post' =
            IF r.err # "nil" /\ ~As(r.err, "KeyPathNotFound")
            THEN [post EXCEPT !.pc = "closing", !.json = json, !.err = "code"]
            ELSE IF r.code # ZeroInt
            THEN [post EXCEPT !.pc = "closing", !.json = json, !.err = "nonzero"]
            ELSE [post EXCEPT !.pc = "closing", !.json = json, !.body = TRUE]
    /\ PostIdle

\* the deferred closure: err = resp.Body.Close(); the results have no names,
\* so the assignment does not reach them
DeferredBodyClose ==
    /\ post.pc = "closing"
    /\ post.deferred
    /\ post' = [post EXCEPT !.pc = "done", !.closes = @ + 1]
    /\ PostIdle

NextPost ==
    \/ \E ok \in BOOLEAN, status \in Statuses : Post(ok, status)
    \/ \E ok \in BOOLEAN : ReadAll(ok)
    \/ CheckStatus
    \/ \E json \in {"zero", "nonzero", "missing", "bad"} : CheckCode(json)
    \/ DeferredBodyClose

SpecPost == InitMiddleware /\ [][NextPost]_vars

\* C20: when PostDAS has returned after a successful Post, the response body
\* has been closed exactly once; and a non-nil body is returned only with a
\* nil error, a status of 200 and a code field that is 0 or missing.
C20_BodyClosedOnce ==
    post.pc = "done" =>
        /\ post.opened => post.closes = 1
        /\ post.body =>
              /\ post.err = "nil"
              /\ post.status = StatusOK
              /\ post.json \in {"zero", "missing"}

====
